---- MODULE Spec2Model ----
(***************************************************************************)
(* LightOS kernel core: the round-robin Scheduler of                       *)
(* src/kernel/task/scheduler.rs, the TaskContext of task/context.rs and    *)
(* the page-fault entry point of interrupts/mod.rs.                        *)
(*                                                                         *)
(* Spec      : add_task and schedule_next as whole operations.             *)
(* SpecSteps : schedule_next statement by statement, with the page-fault   *)
(*             exception (which no instruction of schedule_next masks)     *)
(*             free to arrive between two statements.                      *)
(***************************************************************************)
EXTENDS Integers, Sequences, FiniteSets, TLC

\* ------------------------------------------------------------------------
\* Bounds of the model
\* ------------------------------------------------------------------------
MaxTasks == 2

MaxTicks == 4

\* ------------------------------------------------------------------------
\* Program constants
\* ------------------------------------------------------------------------
\* Size4KiB::SIZE, the frame size PhysFrame::containing_address aligns to.
FrameSize == 4096

\* RFLAGS of a new task: bit 1 (always set) + bit 9 (interrupt enable), 0x202.
InitialRflags == 514

\* ------------------------------------------------------------------------
\* Addresses
\* ------------------------------------------------------------------------
\* PhysFrame::containing_address(addr).start_address()
FrameContaining(addr) == addr - (addr % FrameSize)

IsAligned(addr) == addr % FrameSize = 0

\* Root the hardware holds in CR3 when the kernel starts (Cr3::read() always
\* yields a frame, hence an aligned address).
BootRoots == {FrameSize}

\* Values of Task::cr3_phys_addr handed to add_task. The field is a PhysAddr,
\* not a PhysFrame: an address inside a frame is a value of the type, and
\* switch_cr3 takes it through containing_address.
Roots == {FrameSize, 2 * FrameSize, FrameSize + 1}

\* TaskId values handed to add_task (the scheduler itself uses TaskId(0)).
TaskIds == {0, 1}

\* ------------------------------------------------------------------------
\* TaskContext (task/context.rs)
\* ------------------------------------------------------------------------
\* TaskContext::default(): every register zero.
DefaultContext ==
    [rflags |-> 0, rbx |-> 0, rbp |-> 0, r12 |-> 0, r13 |-> 0, r14 |-> 0,
     r15 |-> 0, rsp |-> 0]

\* A constructor that forgets the entry address.
TaskContextNew_noentry(stack_top, entry_point_addr) ==
    [DefaultContext EXCEPT !.rsp = stack_top, !.rflags = InitialRflags]

\* TaskContext::new(stack_top, entry_point_addr)
TaskContextNew(stack_top, entry_point_addr) ==
    [DefaultContext EXCEPT !.rsp = stack_top,
                           !.r15 = entry_point_addr,
                           !.rflags = InitialRflags]

\* Stack top and entry point of the h-th task handed to add_task.
StackTop(h) == 16 * FrameSize + h * FrameSize

EntryPoint(h) == 32 * FrameSize + 16 * h

\* Register files the assembly wrapper may have saved when a tick arrives.
InterruptedContexts ==
    {[DefaultContext EXCEPT !.rflags = InitialRflags, !.rbx = b,
                            !.rsp = 8 * FrameSize - 8 * b] : b \in {1, 2}}

\* ------------------------------------------------------------------------
\* State
\* ------------------------------------------------------------------------
VARIABLES
    task_queue,       \* Scheduler::task_queue, front first
    current_task,     \* Scheduler::current_task: <<>> is None, <<t>> is Some(t)
    cr3,              \* start address of the frame held by the CR3 register
    current_context,  \* *current_context, the register file the wrapper restores
    pc,               \* position inside schedule_next ("idle" outside it)
    prev_task,        \* local prev_task of schedule_next (<<>> when not live)
    next_task,        \* local next_task of schedule_next (<<>> when not live)
    halted,           \* a fatal handler is spinning in its hlt loop
    created,          \* number of tasks handed to add_task so far
    ticks,            \* number of schedule_next calls so far
    due,              \* per task: the tick at which FIFO order predicts its turn
    saved,            \* per task: interrupted context of its last preemption
    trace,            \* one record per schedule_next call
    epoch,            \* ready queue at the last add_task, and the tick count then
    available_regions,\* PhysicalMemoryManager: the first region_count entries
    next_free_frame,  \* PhysicalMemoryManager::next_free_frame
    areas,            \* VMA_Manager::areas, the VMAs of one task
    page_table,       \* translations installed by the page-table mapper
    allocated,        \* frames returned by allocate_frame, oldest first
    mem_last,         \* the last memory operation and what it returned
    timer_irqs,       \* timer interrupts serviced so far
    eoi_log,          \* EOI commands written to the PICs, oldest first
    sys_last,         \* the last system call and what it returned
    lock_owner,       \* holder of the FRAME_ALLOCATOR lock, 0 when free
    alloc_req,        \* per execution context: its allocation request
    ipc_map,          \* ENDPOINT_MAP: <<>> until call_once, then <<table>>
    ipc_last          \* the last IPC, C-interface or driver call and its result

vars == <<task_queue, current_task, cr3, current_context, pc, prev_task,
          next_task, halted, created, ticks, due, saved, trace, epoch,
          available_regions, next_free_frame, areas, page_table, allocated,
          mem_last, timer_irqs, eoi_log, sys_last, lock_owner, alloc_req,
          ipc_map, ipc_last>>

pmm == <<available_regions, next_free_frame>>

irq == <<timer_irqs, eoi_log>>

ext == <<sys_last, lock_owner, alloc_req>>

ipc == <<ipc_map, ipc_last>>

mem_rest == <<pmm, areas, page_table, allocated, mem_last, irq, ext>>

mem == <<mem_rest, ipc>>

sched == <<task_queue, current_task, cr3, current_context>>

locals == <<pc, prev_task, next_task, halted>>

history == <<due, saved, trace, epoch>>

\* Task objects are told apart by h (0: the task schedule_next synthesizes,
\* 1..: the tasks handed to add_task, in order); id is the TaskId field.
Handles == 0 .. MaxTasks

NoHandle == 0 - 1

Task(h, id, context, root) ==
    [h |-> h, id |-> id, context |-> context, cr3_phys_addr |-> root]

HandlesOf(q) == [i \in 1 .. Len(q) |-> q[i].h]

HandleOfOption(o) == IF o = <<>> THEN NoHandle ELSE o[1].h

\* ------------------------------------------------------------------------
\* Scheduler (task/scheduler.rs): the statements of its operations
\* ------------------------------------------------------------------------
\* add_task with push_front in place of push_back.
add_task_front(q, task) == <<task>> \o q

\* Scheduler::add_task: self.task_queue.push_back(task)
add_task(q, task) == Append(q, task)

\* The Task literal built for kernel_main: TaskId(0), the interrupted context,
\* the start address of the frame read from CR3.
KernelTask(ctx, root) == Task(0, 0, ctx, root)

\* Step 1 without its is_none() test: every call builds the kernel task.
EnsureCurrent_always(cur, ctx, root) == <<KernelTask(ctx, root)>>

\* Step 1 left out: no kernel task is built.
EnsureCurrent_never(cur, ctx, root) == cur

\* Step 1: if self.current_task.is_none() { self.current_task = Some(kernel_task) }
EnsureCurrent(cur, ctx, root) ==
    IF cur = <<>> THEN <<KernelTask(ctx, root)>> ELSE cur

\* Step 2 without the push_back: the preempted task is dropped.
PreemptCurrent_drop(q, prev, ctx) == q

\* Step 2 without the assignment of line 76: the stale context is requeued.
PreemptCurrent_nosave(q, prev, ctx) ==
    IF prev # <<>> THEN Append(q, prev[1]) ELSE q

\* Step 2 with push_front in place of push_back.
PreemptCurrent_front(q, prev, ctx) ==
    IF prev # <<>> THEN <<[prev[1] EXCEPT !.context = ctx]>> \o q ELSE q

\* Step 2: prev_task.context = *current_context; self.task_queue.push_back(prev_task)
PreemptCurrent(q, prev, ctx) ==
    IF prev # <<>> THEN Append(q, [prev[1] EXCEPT !.context = ctx]) ELSE q

\* Step 4 with the test dropped, in either direction.
NeedsCr3Switch_never(active, next_cr3) == FALSE

NeedsCr3Switch_always(active, next_cr3) == TRUE

\* Step 4, the test: Cr3::read().0.start_address() != next_cr3
NeedsCr3Switch(active, next_cr3) == active # next_cr3

\* Scheduler::switch_cr3: the value CR3 holds after
\* Cr3::write(PhysFrame::containing_address(p4_addr), Cr3::read().1)
switch_cr3(p4_addr) == FrameContaining(p4_addr)

\* Step 5: *current_context = next_task.context
InstallContext(next) == next.context

\* Scheduler::schedule_next as one operation: the scheduler state, the CR3
\* register and *current_context it leaves, from the ones it finds.
ScheduleNext(q, cur, root, ctx) ==
    LET cur1 == EnsureCurrent(cur, ctx, root)
        q1   == PreemptCurrent(q, cur1, ctx)
    IN  IF q1 # <<>>
        THEN LET next == Head(q1)
                 sw   == NeedsCr3Switch(root, next.cr3_phys_addr)
             IN  [queue    |-> Tail(q1),
                  current  |-> <<next>>,
                  cr3      |-> IF sw THEN switch_cr3(next.cr3_phys_addr) ELSE root,
                  context  |-> InstallContext(next),
                  switched |-> sw,
                  idle     |-> FALSE]
        ELSE [queue    |-> q1,
              current  |-> <<>>,
              cr3      |-> root,
              context  |-> ctx,
              switched |-> FALSE,
              idle     |-> TRUE]

\* ------------------------------------------------------------------------
\* Initial state: Scheduler::new(), no tick delivered, nothing spawned
\* ------------------------------------------------------------------------
SchedInit ==
    /\ task_queue = <<>>
    /\ current_task = <<>>
    /\ cr3 \in BootRoots
    /\ current_context = DefaultContext
    /\ pc = "idle"
    /\ prev_task = <<>>
    /\ next_task = <<>>
    /\ halted = FALSE
    /\ created = 0
    /\ ticks = 0
    /\ due = [h \in Handles |-> NoHandle]
    /\ saved = [h \in Handles |-> DefaultContext]
    /\ trace = <<>>
    /\ epoch = [q0 |-> <<>>, at |-> 0]

\* Execution contexts that may ask for a frame (page faults of two tasks).
Contexts == {1, 2}

\* No system call made, the allocator lock free, no request under way.
ExtInit ==
    /\ sys_last = [id |-> 0]
    /\ lock_owner = 0
    /\ alloc_req = [p \in Contexts |->
                       [pc |-> "idle", frame_addr |-> 0, got |-> <<>>]]
    /\ ipc_map = <<>>
    /\ ipc_last = [op |-> "none"]

\* PhysicalMemoryManager::new(), VMA_Manager::new(), nothing mapped, no
\* interrupt serviced.
MemInit ==
    /\ ExtInit
    /\ available_regions = <<>>
    /\ next_free_frame = 0
    /\ areas = {}
    /\ page_table = {}
    /\ allocated = <<>>
    /\ mem_last = [op |-> "none"]
    /\ timer_irqs = 0
    /\ eoi_log = <<>>

Init == SchedInit /\ MemInit

\* ------------------------------------------------------------------------
\* Operations, each as a whole
\* ------------------------------------------------------------------------
\* add_task(task) with a freshly built Task. Needs &mut Scheduler, so it
\* never runs inside a schedule_next call.
AddTask ==
    /\ pc = "idle"
    /\ ~halted
    /\ created < MaxTasks
    /\ \E id \in TaskIds, root \in Roots :
          LET h == created + 1
              t == Task(h, id, TaskContextNew(StackTop(h), EntryPoint(h)), root)
          IN  /\ task_queue' = add_task(task_queue, t)
              /\ created' = h
              /\ due' = [due EXCEPT ![h] = ticks + Len(task_queue')]
              /\ saved' = [saved EXCEPT ![h] = t.context]
              /\ epoch' = [q0 |-> HandlesOf(task_queue'), at |-> ticks]
    /\ UNCHANGED <<mem, current_task, cr3, current_context, locals, ticks, trace>>

\* One timer tick: schedule_next(&mut ctx) from entry to return.
Tick ==
    /\ pc = "idle"
    /\ ~halted
    /\ ticks < MaxTicks
    /\ \E ctx \in InterruptedContexts :
          LET r  == ScheduleNext(task_queue, current_task, cr3, ctx)
              ph == IF current_task = <<>> THEN 0 ELSE current_task[1].h
          IN  /\ task_queue' = r.queue
              /\ current_task' = r.current
              /\ cr3' = r.cr3
              /\ current_context' = r.context
              /\ ticks' = ticks + 1
              /\ due' = [due EXCEPT ![ph] = ticks + 1 + Len(r.queue)]
              /\ saved' = [saved EXCEPT ![ph] = ctx]
              /\ trace' = Append(trace,
                     [cur_before  |-> HandleOfOption(current_task),
                      q_before    |-> HandlesOf(task_queue),
                      entry       |-> ctx,
                      root_before |-> cr3,
                      sel         |-> HandleOfOption(r.current),
                      sel_root    |-> IF r.current = <<>> THEN 0
                                      ELSE r.current[1].cr3_phys_addr,
                      sw          |-> r.switched,
                      root_after  |-> r.cr3,
                      live        |-> r.context,
                      q_after     |-> HandlesOf(r.queue)])
    /\ UNCHANGED <<mem, locals, created, epoch>>

Next == AddTask \/ Tick

Spec == Init /\ [][Next]_vars

\* ------------------------------------------------------------------------
\* schedule_next statement by statement
\* ------------------------------------------------------------------------
\* Entry: the wrapper has saved the interrupted registers into *current_context.
Enter ==
    /\ pc = "idle"
    /\ ~halted
    /\ ticks < MaxTicks
    /\ \E ctx \in InterruptedContexts : current_context' = ctx
    /\ ticks' = ticks + 1
    /\ pc' = "synth"
    /\ UNCHANGED <<mem, task_queue, current_task, cr3, prev_task, next_task, halted,
                   created, history>>

\* Step 1 (lines 56-70)
StepSynth ==
    /\ pc = "synth"
    /\ ~halted
    /\ current_task' = EnsureCurrent(current_task, current_context, cr3)
    /\ pc' = "take"
    /\ UNCHANGED <<mem, task_queue, cr3, current_context, prev_task, next_task, halted,
                   created, ticks, history>>

\* self.current_task.take() (line 75)
StepTake ==
    /\ pc = "take"
    /\ ~halted
    /\ prev_task' = current_task
    /\ current_task' = <<>>
    /\ pc' = "requeue"
    /\ UNCHANGED <<mem, task_queue, cr3, current_context, next_task, halted,
                   created, ticks, history>>

\* Body of the if-let (lines 76-77)
StepRequeue ==
    /\ pc = "requeue"
    /\ ~halted
    /\ task_queue' = PreemptCurrent(task_queue, prev_task, current_context)
    /\ prev_task' = <<>>
    /\ pc' = "select"
    /\ UNCHANGED <<mem, current_task, cr3, current_context, next_task, halted,
                   created, ticks, history>>

\* self.task_queue.pop_front() (line 81) and the else branch (lines 99-103)
StepSelect ==
    /\ pc = "select"
    /\ ~halted
    /\ IF task_queue # <<>>
       THEN /\ next_task' = <<Head(task_queue)>>
            /\ task_queue' = Tail(task_queue)
            /\ pc' = "switch"
       ELSE /\ UNCHANGED <<mem, next_task, task_queue>>
            /\ pc' = "idle"
    /\ UNCHANGED <<mem, current_task, cr3, current_context, prev_task, halted,
                   created, ticks, history>>

\* Step 4 (lines 88-91)
StepSwitch ==
    /\ pc = "switch"
    /\ ~halted
    /\ cr3' = IF NeedsCr3Switch(cr3, next_task[1].cr3_phys_addr)
              THEN switch_cr3(next_task[1].cr3_phys_addr)
              ELSE cr3
    /\ pc' = "install"
    /\ UNCHANGED <<mem, task_queue, current_task, current_context, prev_task,
                   next_task, halted, created, ticks, history>>

\* Step 5 (lines 94-95)
StepInstall ==
    /\ pc = "install"
    /\ ~halted
    /\ current_context' = InstallContext(next_task[1])
    /\ current_task' = next_task
    /\ next_task' = <<>>
    /\ pc' = "idle"
    /\ UNCHANGED <<mem, task_queue, cr3, prev_task, halted, created, ticks, history>>

\* ------------------------------------------------------------------------
\* Properties
\* ------------------------------------------------------------------------
\* Every task held by the scheduler: the ready queue, then the current slot.
AllTasks == task_queue \o current_task

Occurrences(h) == Cardinality({i \in 1 .. Len(AllTasks) : AllTasks[i].h = h})

\* Tasks created so far: those handed to add_task, and the kernel task once
\* a tick has been delivered.
CreatedHandles == (1 .. created) \cup (IF ticks > 0 THEN {0} ELSE {})

RootOf(h) ==
    AllTasks[CHOOSE i \in 1 .. Len(AllTasks) : AllTasks[i].h = h].cr3_phys_addr

\* C1: in every state between scheduler operations, every created task is in
\* exactly one of {ready queue, current-task slot}: once in all, never twice
\* in the queue, never in both, never in neither; and nothing else is there.
C1_ExactlyOnePlace ==
    /\ \A h \in CreatedHandles : Occurrences(h) = 1
    /\ Len(AllTasks) = Cardinality(CreatedHandles)

C1_Witness ==
    /\ created = 2
    /\ ticks >= 3
    /\ Len(task_queue) = 2
    /\ current_task # <<>>

\* C2: whenever a task is current and its recorded page-table root is
\* frame-aligned, CR3 holds exactly that root.
C2_ActiveRootIsCurrentRoot ==
    (current_task # <<>> /\ IsAligned(current_task[1].cr3_phys_addr))
        => cr3 = current_task[1].cr3_phys_addr

C2_Witness ==
    /\ ticks >= 2
    /\ current_task # <<>>
    /\ current_task[1].h # 0
    /\ IsAligned(current_task[1].cr3_phys_addr)
    /\ trace[Len(trace)].sw
    /\ trace[Len(trace)].root_before # current_task[1].cr3_phys_addr
    /\ cr3 = current_task[1].cr3_phys_addr

\* C3: every queued task holds as saved context the interrupted context of
\* the tick that last preempted it (its initial context if it never ran);
\* the current task was restored from exactly that value, which is the
\* register file schedule_next left in *current_context.
C3_ContextPreserved ==
    /\ \A i \in 1 .. Len(task_queue) :
          task_queue[i].context = saved[task_queue[i].h]
    /\ current_task # <<>> =>
          /\ current_task[1].context = saved[current_task[1].h]
          /\ current_context = saved[current_task[1].h]

\* A task that ran, was preempted, waited through other ticks and add_task
\* calls and runs again on the registers it was interrupted with.
C3_Witness ==
    /\ current_task # <<>>
    /\ current_task[1].h = 1
    /\ created = 2
    /\ \E i \in 1 .. Len(trace) :
          /\ i + 1 < Len(trace)
          /\ trace[i].cur_before = 1
          /\ trace[Len(trace)].sel = 1
          /\ current_context = trace[i].entry
          /\ trace[i + 1].entry # trace[i].entry

\* ------------------------------------------------------------------------
\* Round-robin order, seen from the last add_task (or from the start)
\* ------------------------------------------------------------------------
\* Number of tasks in the ready queue then, and ticks delivered since.
EpochN == Len(epoch.q0)

TicksSince == ticks - epoch.at

\* Handles made current by those ticks, in order.
SelectedSince == [i \in 1 .. TicksSince |-> trace[epoch.at + i].sel]

\* The task that was current then: the one the first of those ticks
\* preempted, the kernel task if that tick had to synthesize it.
EpochCurrent ==
    IF trace[epoch.at + 1].cur_before = NoHandle THEN 0
    ELSE trace[epoch.at + 1].cur_before

\* C4, as stated: with N tasks in the ready queue, after N ticks each of them
\* has been current exactly once and the ready queue holds the same tasks in
\* the same order as before those ticks.
C4_ClosureAfterN ==
    (EpochN >= 1 /\ TicksSince = EpochN)
        => /\ SelectedSince = epoch.q0
           /\ HandlesOf(task_queue) = epoch.q0

\* C4, amended: the N queued tasks are made current by the next N ticks, once
\* each and in queue order; the rotation closes one tick later, after the
\* turn of the task that was current (the kernel task the first tick
\* synthesizes, when there was none): after N+1 ticks the ready queue holds
\* the same N tasks in the same order.
C4_ClosureAfterNPlusOne ==
    /\ TicksSince >= EpochN =>
          SubSeq(SelectedSince, 1, EpochN) = epoch.q0
    /\ (TicksSince >= 1 /\ TicksSince <= EpochN) =>
          HandlesOf(task_queue) =
              SubSeq(epoch.q0, TicksSince + 1, EpochN)
                  \o <<EpochCurrent>> \o SubSeq(epoch.q0, 1, TicksSince - 1)
    /\ TicksSince = EpochN + 1 =>
          /\ SelectedSince = epoch.q0 \o <<EpochCurrent>>
          /\ HandlesOf(task_queue) = epoch.q0

C4_Witness ==
    /\ EpochN = 2
    /\ epoch.at >= 1
    /\ TicksSince = EpochN + 1
    /\ HandlesOf(task_queue) = epoch.q0

\* ------------------------------------------------------------------------
\* End-to-end scenario 1
\* ------------------------------------------------------------------------
\* A and B handed to add_task in that order before any tick, nothing handed
\* over afterwards, their roots in different frames.
Scenario1 ==
    /\ created = 2
    /\ epoch.at = 0
    /\ epoch.q0 = <<1, 2>>
    /\ ticks >= 1
    /\ FrameContaining(RootOf(1)) # FrameContaining(RootOf(2))

\* The first two ticks of scenario 1, on which the claim and the code agree.
Scenario1_TwoTicks ==
    /\ trace[1].cur_before = NoHandle
    /\ trace[1].sel = 1
    /\ trace[1].q_after = <<2, 0>>
    /\ ticks >= 2 =>
          /\ trace[2].cur_before = 1
          /\ trace[2].sel = 2
          /\ trace[2].q_after = <<0, 1>>
          /\ trace[2].sw
          /\ trace[2].root_after = FrameContaining(RootOf(2))

\* C5, as stated: the first tick synthesizes kernel task 0 and schedules A,
\* the second requeues A and schedules B with a root switch to Rb, the third
\* requeues B and schedules A again with a root switch back to Ra.
C5_Scenario1AsStated ==
    Scenario1 =>
        /\ Scenario1_TwoTicks
        /\ ticks >= 3 =>
              /\ trace[3].cur_before = 2
              /\ trace[3].sel = 1
              /\ trace[3].sw
              /\ trace[3].root_after = FrameContaining(RootOf(1))

\* C5, amended: the first two ticks as stated; the third tick requeues B and
\* schedules kernel task 0, restoring the boot root (a switch, since Rb was
\* active); A is scheduled again by the fourth tick, which requeues task 0
\* and switches the root to Ra exactly when Ra is not the boot root.
C5_Scenario1 ==
    Scenario1 =>
        /\ Scenario1_TwoTicks
        /\ ticks >= 3 =>
              /\ trace[3].cur_before = 2
              /\ trace[3].sel = 0
              /\ trace[3].q_after = <<1, 2>>
              /\ trace[3].root_after = trace[1].root_before
              /\ trace[3].sw <=> (trace[1].root_before # trace[2].root_after)
        /\ ticks >= 4 =>
              /\ trace[4].cur_before = 0
              /\ trace[4].sel = 1
              /\ trace[4].q_after = <<2, 0>>
              /\ trace[4].root_after = FrameContaining(RootOf(1))
              /\ trace[4].sw <=> (RootOf(1) # trace[1].root_before)

\* Ra and Rb frame-aligned, Rb the boot root: switch to Rb at the second tick,
\* kernel task 0 at the third, back to A and to Ra at the fourth.
C5_Witness ==
    /\ Scenario1
    /\ ticks = 4
    /\ IsAligned(RootOf(1))
    /\ IsAligned(RootOf(2))
    /\ trace[2].sw
    /\ trace[3].sel = 0
    /\ trace[4].sw
    /\ HandleOfOption(current_task) = 1
    /\ cr3 = RootOf(1)

\* ------------------------------------------------------------------------
\* FIFO order and bounded waiting
\* ------------------------------------------------------------------------
\* C6: a task enters the ready queue at its tail (add_task, or preemption by
\* a tick) and each tick selects the head: the task at 0-based position k is
\* made current by exactly the (k+1)-th following tick, whatever is handed to
\* add_task in between. due[h] is fixed when h enters the queue, as the tick
\* count then plus its 1-based position; the task is current at exactly that
\* tick and, until then, one place nearer the head after every tick.
C6_FifoBoundedWaiting ==
    /\ \A i \in 1 .. Len(task_queue) : due[task_queue[i].h] = ticks + i
    /\ current_task # <<>> => due[current_task[1].h] = ticks

\* Task 2 was handed over while task 1 was running, behind the kernel task,
\* and is current at the tick predicted then.
C6_Witness ==
    /\ created = 2
    /\ epoch.at >= 1
    /\ epoch.q0 = <<0, 2>>
    /\ HandleOfOption(current_task) = 2
    /\ ticks = epoch.at + 2

\* ------------------------------------------------------------------------
\* Root switches
\* ------------------------------------------------------------------------
\* C7, as stated: a tick invokes switch_cr3 if and only if the selected
\* task's root differs from the active root, and a tick that selects a task
\* with the same root as the task selected by the tick before never invokes
\* it.
C7_RootSwitchMinimality ==
    \A i \in 1 .. Len(trace) :
        /\ trace[i].sel # NoHandle =>
              (trace[i].sw <=> trace[i].root_before # trace[i].sel_root)
        /\ (i > 1 /\ trace[i - 1].sel_root = trace[i].sel_root) => ~trace[i].sw

\* ------------------------------------------------------------------------
\* The synthetic kernel task
\* ------------------------------------------------------------------------
KernelTasks == {i \in 1 .. Len(AllTasks) : AllTasks[i].h = 0}

\* C8: schedule_next builds the kernel task at the first call and at no
\* other: the current-task slot is empty exactly before the first tick, only
\* the first tick finds it empty, one kernel task exists from then on, with
\* TaskId 0 and the root that was active at the first tick, and right after
\* that tick its context is the context interrupted by it.
C8_KernelTaskOnce ==
    /\ (current_task = <<>>) <=> (ticks = 0)
    /\ Cardinality(KernelTasks) = (IF ticks = 0 THEN 0 ELSE 1)
    /\ \A i \in 1 .. Len(trace) : (trace[i].cur_before = NoHandle) <=> (i = 1)
    /\ \A i \in KernelTasks :
          /\ AllTasks[i].id = 0
          /\ AllTasks[i].cr3_phys_addr = trace[1].root_before
          /\ ticks = 1 => AllTasks[i].context = trace[1].entry

C8_Witness ==
    /\ ticks >= 3
    /\ created = 2
    /\ Cardinality(KernelTasks) = 1
    /\ HandleOfOption(current_task) = 0
    /\ cr3 = trace[1].root_before

\* ------------------------------------------------------------------------
\* Scheduler underflow
\* ------------------------------------------------------------------------
\* Ticks that found the ready queue empty and a task current.
UnderflowTicks ==
    {i \in 1 .. Len(trace) :
        trace[i].q_before = <<>> /\ trace[i].cur_before # NoHandle}

\* C9: a tick that finds the ready queue empty and a task current leaves that
\* task current and the ready queue empty, returns the interrupted context
\* it was given, does not invoke switch_cr3 and leaves CR3 as it was.
C9_UnderflowIsNoOp ==
    \A i \in UnderflowTicks :
        /\ trace[i].sel = trace[i].cur_before
        /\ trace[i].q_after = <<>>
        /\ trace[i].live = trace[i].entry
        /\ ~trace[i].sw
        /\ trace[i].root_after = trace[i].root_before

C9_Witness ==
    /\ UnderflowTicks # {}
    /\ current_task # <<>>
    /\ task_queue = <<>>
    /\ current_context = trace[Len(trace)].entry
    /\ current_context # trace[1].entry

\* ------------------------------------------------------------------------
\* Atomicity of the preemption sequence
\* ------------------------------------------------------------------------
\* C10, as stated: no page-fault handler runs between two steps of the
\* preemption sequence, so the state a running handler finds is never one in
\* which schedule_next is under way, the preempted task is in neither place
\* or the current-task slot has been emptied.
C10_PreemptionAtomic ==
    halted =>
        /\ pc = "idle"
        /\ prev_task = <<>>
        /\ next_task = <<>>
        /\ ticks > 0 => current_task # <<>>

\* ------------------------------------------------------------------------
\* Timer interrupt (interrupts/mod.rs, task/mod.rs, interrupts/pic.rs)
\* ------------------------------------------------------------------------

kern == <<sched, locals, created, ticks, history>>

PIC_1_OFFSET == 32

PIC_2_OFFSET == PIC_1_OFFSET + 8

\* InterruptIndex::Timer.as_u8()
TimerVector == PIC_1_OFFSET

\* ChainedPics::notify_end_of_interrupt: the slave is acknowledged only for
\* its own vectors, the master always.
notify_end_of_interrupt(interrupt_id) ==
    IF interrupt_id >= PIC_2_OFFSET
    THEN <<[pic |-> "slave", vector |-> interrupt_id],
           [pic |-> "master", vector |-> interrupt_id]>>
    ELSE <<[pic |-> "master", vector |-> interrupt_id]>>

\* timer_interrupt_handler: the call of schedule_next is commented out, the
\* handler only acknowledges the interrupt.
TimerInterrupt ==
    /\ ~halted
    /\ timer_irqs < MaxTicks
    /\ timer_irqs' = timer_irqs + 1
    /\ eoi_log' = eoi_log \o notify_end_of_interrupt(TimerVector)
    /\ UNCHANGED <<kern, ipc, ext, pmm, areas, page_table, allocated, mem_last>>

NextTimer == AddTask \/ TimerInterrupt

SpecTimer == Init /\ [][NextTimer]_vars

\* C11: every serviced timer interrupt has invoked schedule_next exactly
\* once (one trace record per call) and has then sent one EOI for the
\* timer vector to the master PIC.
C11_TimerInvokesScheduler ==
    /\ Len(trace) = timer_irqs
    /\ Len(eoi_log) = timer_irqs
    /\ \A i \in 1 .. Len(eoi_log) :
          eoi_log[i] = [pic |-> "master", vector |-> TimerVector]

\* ------------------------------------------------------------------------
\* Physical frame allocator (memory/frame_alloc.rs)
\* ------------------------------------------------------------------------

MaxRegions == 2

\* available_regions.len()
RegionCapacity == 32

\* Boot memory map entries offered to add_available_region: base 0, aligned
\* bases, an unaligned base (0x1800), adjacent and non-adjacent ranges.
RegionStarts == {0, FrameSize, FrameSize + (FrameSize \div 2), 3 * FrameSize}

RegionLens == {FrameSize, 2 * FrameSize}

Region(start, len) == [start |-> start, len |-> len]

region_count == Len(available_regions)

\* add_available_region: the entry is stored while the table has room; the
\* cursor is set to the region's base while it is still zero.
add_available_region(regions, cursor, start, len) ==
    IF Len(regions) < RegionCapacity
    THEN [regions |-> Append(regions, Region(start, len)),
          next_free_frame |-> IF cursor = 0 THEN start ELSE cursor]
    ELSE [regions |-> regions, next_free_frame |-> cursor]

FrameInRegion_noend(frame_addr, region) ==
    frame_addr >= region.start

\* frame_addr >= start && frame_addr + frame_size <= end
FrameInRegion(frame_addr, region) ==
    /\ frame_addr >= region.start
    /\ frame_addr + FrameSize <= region.start + region.len

AdvanceCursor_stuck(frame_addr) == frame_addr

AdvanceCursor_double(frame_addr) == frame_addr + 2 * FrameSize

\* next_free_frame = frame_addr + frame_size
AdvanceCursor(frame_addr) == frame_addr + FrameSize

\* allocate_frame: the frame containing the cursor is returned when some
\* declared region holds it whole; otherwise None and nothing changes.
allocate_frame(regions, cursor) ==
    LET frame_addr == FrameContaining(cursor)
    IN  IF \E i \in 1 .. Len(regions) : FrameInRegion(frame_addr, regions[i])
        THEN [frame |-> <<frame_addr>>,
              next_free_frame |-> AdvanceCursor(frame_addr)]
        ELSE [frame |-> <<>>, next_free_frame |-> cursor]

AddRegion ==
    /\ region_count < MaxRegions
    /\ \E start \in RegionStarts, len \in RegionLens :
          LET r == add_available_region(available_regions, next_free_frame,
                                        start, len)
          IN  /\ available_regions' = r.regions
              /\ next_free_frame' = r.next_free_frame
              /\ mem_last' = [op |-> "add_available_region"]
    /\ UNCHANGED <<kern, ipc, ext, areas, page_table, allocated, irq>>

AllocateFrame ==
    LET r == allocate_frame(available_regions, next_free_frame)
    IN  /\ next_free_frame' = r.next_free_frame
        /\ allocated' = allocated \o r.frame
        /\ mem_last' = [op |-> "allocate_frame", result |-> r.frame,
                        regions |-> available_regions,
                        cursor |-> next_free_frame]
        /\ UNCHANGED <<kern, ipc, ext, available_regions, areas, page_table, irq>>

NextPmm == AddRegion \/ AllocateFrame

SpecPmm == Init /\ [][NextPmm]_vars

\* C12: every frame returned by allocate_frame is 4 KiB aligned, lies whole
\* inside one declared region, and differs from every frame returned before.
C12_FrameMonotonicity ==
    \A i \in 1 .. Len(allocated) :
        /\ IsAligned(allocated[i])
        /\ \E k \in 1 .. region_count :
              /\ allocated[i] >= available_regions[k].start
              /\ allocated[i] + FrameSize
                   <= available_regions[k].start + available_regions[k].len
        /\ \A j \in 1 .. Len(allocated) : j # i => allocated[j] # allocated[i]

C12_Witness ==
    /\ Len(allocated) >= 3
    /\ region_count = 2
    /\ mem_last.op = "allocate_frame"
    /\ mem_last.result # <<>>

\* The frame-aligned addresses whose full extent lies in a declared region.
DeclaredFrames(regions) ==
    UNION {{a \in {k * FrameSize :
                     k \in 0 .. ((regions[i].start + regions[i].len)
                                   \div FrameSize)} :
              /\ a >= regions[i].start
              /\ a + FrameSize <= regions[i].start + regions[i].len} :
           i \in 1 .. Len(regions)}

AllocatedSet == {allocated[i] : i \in 1 .. Len(allocated)}

Covered == DeclaredFrames(available_regions) \subseteq AllocatedSet

\* C13: once the returned frames cover every declared region the next
\* allocate_frame returns None, and so does every further one; a failed
\* call leaves the cursor and the region table as they were.
C13_Exhaustion ==
    /\ Covered =>
          allocate_frame(available_regions, next_free_frame)
            = [frame |-> <<>>, next_free_frame |-> next_free_frame]
    /\ (mem_last.op = "allocate_frame" /\ mem_last.result = <<>>) =>
          /\ available_regions = mem_last.regions
          /\ next_free_frame = mem_last.cursor

C13_Witness ==
    /\ Covered
    /\ Len(allocated) >= 2
    /\ mem_last.op = "allocate_frame"
    /\ mem_last.result = <<>>

\* The first frame-aligned address at or after the cursor whose full extent
\* lies in some declared region, None when there is none.
FirstFit(regions, cursor) ==
    LET fit == {a \in DeclaredFrames(regions) : a >= cursor}
    IN  IF fit = {} THEN <<>>
        ELSE <<CHOOSE a \in fit : \A b \in fit : a <= b>>

\* C14: allocate_frame returns the first frame-aligned address at or after
\* the cursor whose full extent lies in some declared region, whatever the
\* regions' order, adjacency and alignment, and fails only when no such
\* address exists.
C14_AdvancesThroughRegions ==
    mem_last.op = "allocate_frame" =>
        mem_last.result = FirstFit(mem_last.regions, mem_last.cursor)

\* ------------------------------------------------------------------------
\* VMA manager (memory/vma.rs)
\* ------------------------------------------------------------------------

MaxAreas == 2

VmaStarts == {FrameSize, 2 * FrameSize, 3 * FrameSize}

VmaSizes == {FrameSize, 3 * FrameSize}

\* PageTableFlags and VMA_Type of the areas offered to add_area:
\* PRESENT for code, PRESENT | WRITABLE for data.
VmaKinds == {[flags |-> 1, area_type |-> "Code"],
             [flags |-> 3, area_type |-> "Data"]}

VirtualMemoryArea(start_addr, size, kind) ==
    [start_addr |-> start_addr, size |-> size, flags |-> kind.flags,
     area_type |-> kind.area_type]

\* Faulting addresses: 0x2500, 0x3500 and 0x9000.
FaultAddrs == {2 * FrameSize + 1280, 3 * FrameSize + 1280, 9 * FrameSize}

\* s <= addr < s + n
Contains(area, addr) ==
    /\ addr >= area.start_addr
    /\ addr < area.start_addr + area.size

add_area_replace(vmas, area) ==
    [areas |-> {a \in vmas : a.start_addr # area.start_addr} \cup {area},
     result |-> "Ok"]

\* add_area: only an equal start address is refused; the ranges are not
\* compared.
add_area(vmas, area) ==
    IF \E a \in vmas : a.start_addr = area.start_addr
    THEN [areas |-> vmas, result |-> "AreaAlreadyExists"]
    ELSE [areas |-> vmas \cup {area}, result |-> "Ok"]

\* find_area: the area with the greatest start address at or below addr
\* (areas.range(..=addr).last()), returned when it contains addr.
find_area(vmas, addr) ==
    LET below == {a \in vmas : a.start_addr <= addr}
    IN  IF below = {} THEN <<>>
        ELSE LET area == CHOOSE a \in below :
                            \A b \in below : b.start_addr <= a.start_addr
             IN  IF Contains(area, addr) THEN <<area>> ELSE <<>>

\* An add_area that populates the first page of the new area at once.
AddArea_prepopulate ==
    /\ Cardinality(areas) < MaxAreas
    /\ \E start \in VmaStarts, size \in VmaSizes, kind \in VmaKinds :
          LET area == VirtualMemoryArea(start, size, kind)
              r == add_area(areas, area)
              got == allocate_frame(available_regions, next_free_frame)
          IN  /\ areas' = r.areas
              /\ next_free_frame' = got.next_free_frame
              /\ allocated' = allocated \o got.frame
              /\ page_table' =
                   IF r.result = "Ok" /\ got.frame # <<>>
                   THEN page_table \cup
                          {[root |-> FrameContaining(cr3), page |-> start,
                            frame |-> got.frame[1], flags |-> kind.flags]}
                   ELSE page_table
              /\ mem_last' = [op |-> "add_area", area |-> area,
                              result |-> r.result, before |-> areas]
    /\ UNCHANGED <<kern, ipc, ext, available_regions, irq>>

AddArea ==
    /\ Cardinality(areas) < MaxAreas
    /\ \E start \in VmaStarts, size \in VmaSizes, kind \in VmaKinds :
          LET area == VirtualMemoryArea(start, size, kind)
              r == add_area(areas, area)
          IN  /\ areas' = r.areas
              /\ mem_last' = [op |-> "add_area", area |-> area,
                              result |-> r.result, before |-> areas]
    /\ UNCHANGED <<kern, ipc, ext, pmm, page_table, allocated, irq>>

\* C15: find_area(addr) returns a VMA exactly when that VMA is in the
\* manager and contains addr, and returns None for an address in no VMA.
C15_VmaContainment ==
    \A addr \in FaultAddrs :
        /\ \A a \in areas :
              (find_area(areas, addr) = <<a>>) <=> Contains(a, addr)
        /\ (\A a \in areas : ~Contains(a, addr)) =>
              find_area(areas, addr) = <<>>

\* C16: the VMAs of the manager are pairwise non-overlapping.
C16_VmasDisjoint ==
    \A a, b \in areas :
        a # b => \/ a.start_addr + a.size <= b.start_addr
                 \/ b.start_addr + b.size <= a.start_addr

BootRegion == Region(16 * FrameSize, 2 * FrameSize)

\* Page::containing_address
PageContaining(addr) == addr - (addr % FrameSize)

Pages == {PageContaining(a) : a \in FaultAddrs}

\* Page-table frames that map_to has to create for the first translation
\* of a tree (none when the boot tables already cover the page).
NewTables == {0, 1}

Mapping(root, page, frame, flags) ==
    [root |-> root, page |-> page, frame |-> frame, flags |-> flags]

IsMapped(pt, root, page) == \E m \in pt : m.root = root /\ m.page = page

\* The translation of the page in the active tree becomes page -> frame
\* with the given flags.
Install(pt, root, page, frame, flags) ==
    {m \in pt : ~(m.root = root /\ m.page = page)}
        \cup {Mapping(root, page, frame, flags)}

\* paging::map_page is not part of the sources: it installs one
\* translation into the active tree, replacing an existing one, and may
\* fail leaving the tree as it was.
map_page(pt, root, page, frame, flags, ok) ==
    IF ok
    THEN [page_table |-> Install(pt, root, page, frame, flags),
          result |-> "Ok"]
    ELSE [page_table |-> pt, result |-> "Err"]

\* map_vma_page: lookup, then one frame, then the install, whose outcome
\* is not looked at.
map_vma_page(vmas, regions, cursor, pt, root, fault_addr, ok) ==
    LET page == PageContaining(fault_addr)
        found == find_area(vmas, fault_addr)
        got == allocate_frame(regions, cursor)
    IN  IF found = <<>>
        THEN [result |-> "NoAreaFound", next_free_frame |-> cursor,
              frame |-> <<>>, page_table |-> pt, install |-> "none"]
        ELSE IF got.frame = <<>>
        THEN [result |-> "OOM", next_free_frame |-> got.next_free_frame,
              frame |-> <<>>, page_table |-> pt, install |-> "none"]
        ELSE LET inst == map_page(pt, root, page, got.frame[1],
                                  found[1].flags, ok)
             IN  [result |-> "Ok", next_free_frame |-> got.next_free_frame,
                  frame |-> got.frame, page_table |-> inst.page_table,
                  install |-> inst.result]

\* Mapper::map_to: missing page tables are created from frames of the
\* allocator, then the entry is written unless the page is mapped already.
map_to(pt, root, page, frame, flags, regions, cursor, tables) ==
    LET need == IF \E m \in pt : m.root = root THEN 0 ELSE tables
        got == allocate_frame(regions, cursor)
    IN  IF need = 1 /\ got.frame = <<>>
        THEN [result |-> "FrameAllocationFailed", page_table |-> pt,
              next_free_frame |-> cursor, frames |-> <<>>]
        ELSE LET after == IF need = 1 THEN got.next_free_frame ELSE cursor
                 used == IF need = 1 THEN got.frame ELSE <<>>
             IN  IF IsMapped(pt, root, page)
                 THEN [result |-> "PageAlreadyMapped", page_table |-> pt,
                       next_free_frame |-> after, frames |-> used]
                 ELSE [result |-> "Ok",
                       page_table |-> Install(pt, root, page, frame, flags),
                       next_free_frame |-> after, frames |-> used]

\* create_mapping: one frame, then map_to, whose error becomes PagingError.
create_mapping(regions, cursor, pt, root, page, flags, tables) ==
    LET got == allocate_frame(regions, cursor)
    IN  IF got.frame = <<>>
        THEN [result |-> "FrameAllocationFailed", next_free_frame |-> cursor,
              frames |-> <<>>, page_table |-> pt, install |-> "none"]
        ELSE LET inst == map_to(pt, root, page, got.frame[1], flags,
                                regions, got.next_free_frame, tables)
             IN  [result |-> IF inst.result = "Ok" THEN "Ok"
                             ELSE "PagingError",
                  next_free_frame |-> inst.next_free_frame,
                  frames |-> got.frame \o inst.frames,
                  page_table |-> inst.page_table,
                  install |-> IF inst.result = "Ok" THEN "Ok" ELSE "Err"]

Before ==
    [areas |-> areas, cursor |-> next_free_frame, page_table |-> page_table,
     allocated |-> allocated, regions |-> available_regions]

\* A map_vma_page that uses the area up: the VMA found is removed.
MapVmaPage_consume ==
    /\ \E fault_addr \in FaultAddrs, ok \in BOOLEAN :
          LET r == map_vma_page(areas, available_regions, next_free_frame,
                                page_table, FrameContaining(cr3),
                                fault_addr, ok)
          IN  /\ next_free_frame' = r.next_free_frame
              /\ page_table' = r.page_table
              /\ allocated' = allocated \o r.frame
              /\ areas' = IF r.result = "Ok"
                          THEN areas \ {find_area(areas, fault_addr)[1]}
                          ELSE areas
              /\ mem_last' = [op |-> "map_vma_page",
                              fault_addr |-> fault_addr,
                              result |-> r.result, frame |-> r.frame,
                              install |-> r.install, before |-> Before]
    /\ UNCHANGED <<kern, ipc, ext, available_regions, irq>>

MapVmaPage ==
    /\ \E fault_addr \in FaultAddrs, ok \in BOOLEAN :
          LET r == map_vma_page(areas, available_regions, next_free_frame,
                                page_table, FrameContaining(cr3),
                                fault_addr, ok)
          IN  /\ next_free_frame' = r.next_free_frame
              /\ page_table' = r.page_table
              /\ allocated' = allocated \o r.frame
              /\ mem_last' = [op |-> "map_vma_page",
                              fault_addr |-> fault_addr,
                              result |-> r.result, frame |-> r.frame,
                              install |-> r.install, before |-> Before]
    /\ UNCHANGED <<kern, ipc, ext, available_regions, areas, irq>>

CreateMapping ==
    /\ \E page \in Pages, kind \in VmaKinds, tables \in NewTables :
          LET r == create_mapping(available_regions, next_free_frame,
                                  page_table, FrameContaining(cr3), page,
                                  kind.flags, tables)
          IN  /\ next_free_frame' = r.next_free_frame
              /\ page_table' = r.page_table
              /\ allocated' = allocated \o r.frames
              /\ mem_last' = [op |-> "create_mapping", page |-> page,
                              result |-> r.result, frame |-> r.frames,
                              install |-> r.install, before |-> Before]
    /\ UNCHANGED <<kern, ipc, ext, available_regions, areas, irq>>

\* The state once the boot memory map has been handed to the allocator.
InitVma ==
    /\ SchedInit
    /\ ExtInit
    /\ available_regions = <<BootRegion>>
    /\ next_free_frame = BootRegion.start
    /\ areas = {}
    /\ page_table = {}
    /\ allocated = <<>>
    /\ mem_last = [op |-> "add_available_region"]
    /\ timer_irqs = 0
    /\ eoi_log = <<>>

NextVma == AddArea \/ MapVmaPage \/ CreateMapping

SpecVma == InitVma /\ [][NextVma]_vars

\* C18: when no VMA contains fault_addr, map_vma_page returns NoAreaFound
\* and leaves the allocator cursor and the page tables untouched; when a
\* VMA contains it and the allocator is exhausted, it returns OOM and
\* installs no mapping.
C18_MapVmaPageErrors ==
    mem_last.op = "map_vma_page" =>
        LET b == mem_last.before
            contained == \E a \in b.areas : Contains(a, mem_last.fault_addr)
            exhausted == allocate_frame(b.regions, b.cursor).frame = <<>>
        IN  /\ ~contained =>
                  /\ mem_last.result = "NoAreaFound"
                  /\ next_free_frame = b.cursor
                  /\ allocated = b.allocated
                  /\ page_table = b.page_table
            /\ (contained /\ exhausted) =>
                  /\ mem_last.result = "OOM"
                  /\ page_table = b.page_table

\* C19: a successful map_vma_page(fault_addr) has allocated exactly one
\* frame and installed exactly one mapping, from the page containing
\* fault_addr to that frame, with the flags of a VMA containing fault_addr.
C19_MapVmaPageSuccess ==
    (mem_last.op = "map_vma_page" /\ mem_last.result = "Ok") =>
        LET b == mem_last.before
            root == FrameContaining(cr3)
            page == PageContaining(mem_last.fault_addr)
        IN  /\ Len(mem_last.frame) = 1
            /\ allocated = b.allocated \o mem_last.frame
            /\ \E a \in b.areas :
                  /\ Contains(a, mem_last.fault_addr)
                  /\ page_table =
                       {m \in b.page_table :
                           ~(m.root = root /\ m.page = page)}
                       \cup {Mapping(root, page, mem_last.frame[1], a.flags)}

\* C20: whenever installing the translation failed, map_vma_page and
\* create_mapping have returned an error.
C20_InstallFailureSurfaced ==
    (/\ mem_last.op \in {"map_vma_page", "create_mapping"}
     /\ mem_last.install = "Err") => mem_last.result # "Ok"

\* ------------------------------------------------------------------------
\* Page-fault handler (task/mod.rs, interrupts/mod.rs)
\* ------------------------------------------------------------------------

\* A handler that resolves every fault it can map, whoever is running.
page_fault_handler_resolve(vmas, regions, cursor, pt, root, cur, fault_addr) ==
    LET r == map_vma_page(vmas, regions, cursor, pt, root, fault_addr, TRUE)
    IN  [halted |-> r.result # "Ok", next_free_frame |-> r.next_free_frame,
         page_table |-> r.page_table, frame |-> r.frame]

\* page_fault_handler: prints CR2, the error code and the stack frame, then
\* loops on hlt and never returns; it consults neither the current task nor
\* a VMA manager, allocates nothing and installs nothing.
page_fault_handler(vmas, regions, cursor, pt, root, cur, fault_addr) ==
    [halted |-> TRUE, next_free_frame |-> cursor, page_table |-> pt,
     frame |-> <<>>]

\* #PF is an exception: it is raised by the faulting memory access itself
\* and no statement of schedule_next masks it.
PageFault ==
    /\ ~halted
    /\ \E fault_addr \in FaultAddrs :
          LET r == page_fault_handler(areas, available_regions,
                                      next_free_frame, page_table,
                                      FrameContaining(cr3), current_task,
                                      fault_addr)
          IN  /\ halted' = r.halted
              /\ next_free_frame' = r.next_free_frame
              /\ page_table' = r.page_table
              /\ allocated' = allocated \o r.frame
              /\ mem_last' = [op |-> "page_fault", fault_addr |-> fault_addr,
                              current |-> HandleOfOption(current_task),
                              frame |-> r.frame, before |-> Before]
    /\ UNCHANGED <<sched, pc, prev_task, next_task, created, ticks, history, ipc,
                   available_regions, areas, irq, ext>>

NextSteps ==
    \/ AddTask
    \/ Enter
    \/ StepSynth
    \/ StepTake
    \/ StepRequeue
    \/ StepSelect
    \/ StepSwitch
    \/ StepInstall
    \/ PageFault

SpecSteps == Init /\ [][NextSteps]_vars

\* ------------------------------------------------------------------------
\* Demand paging through the VMA manager alone
\* ------------------------------------------------------------------------

NextDemand == AddArea \/ MapVmaPage

SpecDemand == InitVma /\ [][NextDemand]_vars

\* C21: map_vma_page leaves the VMA manager as it found it, so after a
\* successful map_vma_page(a) the lookup of a second map_vma_page(a) finds
\* the same VMA and the call does not fail with NoAreaFound.
C21_LookupIdempotent ==
    mem_last.op = "map_vma_page" =>
        /\ areas = mem_last.before.areas
        /\ mem_last.result = "Ok" =>
              /\ find_area(areas, mem_last.fault_addr) # <<>>
              /\ find_area(areas, mem_last.fault_addr)
                   = find_area(mem_last.before.areas, mem_last.fault_addr)
              /\ \A ok \in BOOLEAN :
                    map_vma_page(areas, available_regions, next_free_frame,
                                 page_table, FrameContaining(cr3),
                                 mem_last.fault_addr, ok).result
                      # "NoAreaFound"

\* A second successful call on an address whose page an earlier call mapped.
C21_Witness ==
    /\ mem_last.op = "map_vma_page"
    /\ mem_last.result = "Ok"
    /\ IsMapped(mem_last.before.page_table, FrameContaining(cr3),
                PageContaining(mem_last.fault_addr))
    /\ Len(allocated) = 2

\* Pages whose translation differs between two page tables.
ChangedPages(pt, pt2) == {m.page : m \in (pt \ pt2) \cup (pt2 \ pt)}

\* C22: add_area allocates no frame and installs no mapping (cursor, frames
\* handed out and page tables stay as they were); the cursor, the frames
\* handed out and the page tables change only in a map_vma_page call, by
\* at most one frame and the one page of the faulting address.
C22_NeverPrepopulated ==
    [][/\ mem_last'.op = "add_area" =>
             UNCHANGED <<next_free_frame, allocated, page_table>>
       /\ (\/ next_free_frame' # next_free_frame
           \/ allocated' # allocated
           \/ page_table' # page_table) =>
             /\ mem_last'.op = "map_vma_page"
             /\ Len(allocated') = Len(allocated) + 1
             /\ next_free_frame' = next_free_frame + FrameSize
             /\ ChangedPages(page_table, page_table')
                  \subseteq {PageContaining(mem_last'.fault_addr)}
             /\ Cardinality(page_table' \ page_table) <= 1]_vars

\* An area was added while a frame was already in use, and its first page
\* has no translation.
C22_Witness ==
    /\ mem_last.op = "add_area"
    /\ mem_last.result = "Ok"
    /\ Len(allocated) >= 1
    /\ page_table # {}
    /\ ~IsMapped(page_table, FrameContaining(cr3), mem_last.area.start_addr)

\* ------------------------------------------------------------------------
\* Page faults of the running task
\* ------------------------------------------------------------------------

NextFault == Tick \/ AddArea \/ PageFault

SpecFault == InitVma /\ [][NextFault]_vars

FaultContained ==
    \E a \in mem_last.before.areas : Contains(a, mem_last.fault_addr)

\* C23: a page fault at an address inside a VMA of the running task is
\* resolved: one frame is allocated, the page of the address is mapped,
\* and the handler returns instead of halting the kernel.
C23_FaultResolved ==
    (/\ mem_last.op = "page_fault"
     /\ mem_last.current # NoHandle
     /\ FaultContained) =>
        /\ ~halted
        /\ Len(mem_last.frame) = 1
        /\ IsMapped(page_table, FrameContaining(cr3),
                    PageContaining(mem_last.fault_addr))

\* C24: a page fault at an address in no VMA, or with no current task, halts
\* the kernel and neither allocates a frame nor installs a mapping.
C24_FaultFatal ==
    (/\ mem_last.op = "page_fault"
     /\ (mem_last.current = NoHandle \/ ~FaultContained)) =>
        /\ halted
        /\ mem_last.frame = <<>>
        /\ next_free_frame = mem_last.before.cursor
        /\ allocated = mem_last.before.allocated
        /\ page_table = mem_last.before.page_table

C24_Witness ==
    /\ mem_last.op = "page_fault"
    /\ mem_last.current # NoHandle
    /\ areas # {}
    /\ ~FaultContained
    /\ halted

\* C25: the mapping that resolves a fault of the running task is installed
\* into that task's own tree: a new translation of the faulting page exists
\* under the current task's root, which is the active root.
C25_FaultInstalledInOwnTree ==
    (/\ mem_last.op = "page_fault"
     /\ current_task # <<>>
     /\ FaultContained) =>
        /\ FrameContaining(cr3) = current_task[1].cr3_phys_addr
        /\ \E m \in page_table \ mem_last.before.page_table :
              /\ m.page = PageContaining(mem_last.fault_addr)
              /\ m.root = current_task[1].cr3_phys_addr

\* ------------------------------------------------------------------------
\* Initial context of a task (task/context.rs)
\* ------------------------------------------------------------------------

\* RFLAGS bit 9, the interrupt-enable flag.
InterruptFlag == 512

\* The ticks that selected the task with handle h.
SelectionsOf(h) == {i \in 1 .. Len(trace) : trace[i].sel = h}

\* Stack pointer at the stack top, entry address in the register the restore
\* path resumes from (r15), interrupts enabled, every other register zero.
IsInitialContext(c, h) ==
    /\ c.rsp = StackTop(h)
    /\ c.r15 = EntryPoint(h)
    /\ (c.rflags \div InterruptFlag) % 2 = 1
    /\ c.rbx = 0 /\ c.rbp = 0 /\ c.r12 = 0 /\ c.r13 = 0 /\ c.r14 = 0

\* C26: a task that has never run carries the initial context (stack
\* pointer at its stack top, entry address pre-loaded, interrupt flag set,
\* every other register zero), and the tick that first selects it installs
\* exactly that context, as it installs the saved context of a preempted
\* task.
C26_InitialContext ==
    /\ \A i \in 1 .. Len(AllTasks) :
          LET t == AllTasks[i]
          IN  (t.h # 0 /\ SelectionsOf(t.h) = {}) =>
                  IsInitialContext(t.context, t.h)
    /\ \A h \in 1 .. created :
          SelectionsOf(h) # {} =>
              LET first == CHOOSE i \in SelectionsOf(h) :
                              \A j \in SelectionsOf(h) : i <= j
              IN  IsInitialContext(trace[first].live, h)

C26_Witness ==
    /\ created = 2
    /\ SelectionsOf(1) # {}
    /\ SelectionsOf(2) = {}
    /\ current_task # <<>>
    /\ current_task[1].h = 1
    /\ IsInitialContext(current_context, 1)

\* C27: no two tasks held by the scheduler (ready queue and current slot)
\* carry the same id, the synthesized kernel task with id 0 included.
C27_TaskIdsUnique ==
    \A i, j \in 1 .. Len(AllTasks) :
        i # j => AllTasks[i].id # AllTasks[j].id

\* ------------------------------------------------------------------------
\* Frame allocation under the allocator's lock (memory/vma.rs,
\* memory/frame_alloc.rs): FRAME_ALLOCATOR.lock().allocate_frame()
\* ------------------------------------------------------------------------

LockFree_always(owner) == TRUE

\* lock() returns only while no other context holds the guard.
LockFree(owner) == owner = 0

\* FRAME_ALLOCATOR.lock()
LockAcquire(p) ==
    /\ alloc_req[p].pc = "idle"
    /\ LockFree(lock_owner)
    /\ lock_owner' = p
    /\ alloc_req' = [alloc_req EXCEPT ![p].pc = "read"]
    /\ UNCHANGED <<kern, ipc, pmm, areas, page_table, allocated, mem_last, irq,
                   sys_last>>

\* let frame = PhysFrame::containing_address(self.next_free_frame)
ReadCursor(p) ==
    /\ alloc_req[p].pc = "read"
    /\ alloc_req' = [alloc_req EXCEPT
                       ![p].pc = "check",
                       ![p].frame_addr = FrameContaining(next_free_frame)]
    /\ UNCHANGED <<kern, ipc, pmm, areas, page_table, allocated, mem_last, irq,
                   sys_last, lock_owner>>

\* The loop over the regions: the cursor is advanced and the frame returned
\* when a region holds the frame read before, None otherwise.
CheckAdvance(p) ==
    /\ alloc_req[p].pc = "check"
    /\ LET frame_addr == alloc_req[p].frame_addr
           hit == \E i \in 1 .. region_count :
                      FrameInRegion(frame_addr, available_regions[i])
           frame == IF hit THEN <<frame_addr>> ELSE <<>>
       IN  /\ next_free_frame' = IF hit THEN AdvanceCursor(frame_addr)
                                 ELSE next_free_frame
           /\ allocated' = allocated \o frame
           /\ alloc_req' = [alloc_req EXCEPT ![p].pc = "unlock",
                                             ![p].got = frame]
           /\ mem_last' = [op |-> "allocate_frame", result |-> frame,
                           regions |-> available_regions,
                           cursor |-> next_free_frame]
    /\ UNCHANGED <<kern, ipc, available_regions, areas, page_table, irq,
                   sys_last, lock_owner>>

\* The guard is dropped at the end of the statement.
LockRelease(p) ==
    /\ alloc_req[p].pc = "unlock"
    /\ lock_owner' = 0
    /\ alloc_req' = [alloc_req EXCEPT ![p].pc = "idle"]
    /\ UNCHANGED <<kern, ipc, pmm, areas, page_table, allocated, mem_last, irq,
                   sys_last>>

\* The boot code fills the region table through the same lock.
AddRegionLocked == LockFree(lock_owner) /\ AddRegion

NextAlloc ==
    \/ AddRegionLocked
    \/ \E p \in Contexts : LockAcquire(p)
    \/ \E p \in Contexts : ReadCursor(p)
    \/ \E p \in Contexts : CheckAdvance(p)
    \/ \E p \in Contexts : LockRelease(p)

SpecAlloc == Init /\ [][NextAlloc]_vars

\* C28: allocation requests of different contexts do not interleave: a
\* context inside its request holds the lock, the cursor it read is still
\* the allocator's cursor when it checks and advances, and no frame is
\* handed out twice.
C28_AllocationAtomic ==
    /\ \A p \in Contexts : alloc_req[p].pc # "idle" => lock_owner = p
    /\ \A p \in Contexts :
          alloc_req[p].pc = "check" =>
              alloc_req[p].frame_addr = FrameContaining(next_free_frame)
    /\ \A i, j \in 1 .. Len(allocated) :
          i # j => allocated[i] # allocated[j]

\* Both contexts hold a frame, one of them inside a further request.
C28_Witness ==
    /\ alloc_req[1].got # <<>>
    /\ alloc_req[2].got # <<>>
    /\ alloc_req[1].got # alloc_req[2].got
    /\ lock_owner = 2
    /\ alloc_req[2].pc = "check"

\* ------------------------------------------------------------------------
\* System-call dispatcher (syscall/mod.rs)
\* ------------------------------------------------------------------------

\* PrintString, Exit, SpawnTask, TrustyCall and a number that is none of them.
SyscallNumbers == {1, 2, 3, 100, 4}

SpawnTaskId == 3

\* The return value 0xFFFF_FFFF_FFFF_FFFF, written as the signed value of
\* the same 64 bits.
SyscallInvalid == 0 - 1

\* syscall_dispatcher: the value returned in RAX. The SpawnTask and Exit arms
\* only return 0 (their scheduler calls are commented out); PrintString
\* returns 0 when the user buffer is valid UTF-8 and 1 otherwise.
syscall_dispatcher(id, arg1, utf8_ok) ==
    CASE id = 1 -> IF utf8_ok THEN 0 ELSE 1
      [] id = 2 -> 0
      [] id = SpawnTaskId -> 0
      [] id = 100 -> 0
      [] OTHER -> SyscallInvalid

Syscall ==
    /\ ~halted
    /\ \E id \in SyscallNumbers, h \in 1 .. MaxTasks, utf8_ok \in BOOLEAN :
          sys_last' = [id |-> id, arg1 |-> EntryPoint(h),
                       ret |-> syscall_dispatcher(id, EntryPoint(h), utf8_ok),
                       queue_before |-> task_queue]
    /\ UNCHANGED <<kern, ipc, pmm, areas, page_table, allocated, mem_last, irq,
                   lock_owner, alloc_req>>

NextSyscall == AddTask \/ Syscall

SpecSyscall == Init /\ [][NextSyscall]_vars

\* C29: a SpawnTask system call with an entry address has appended a task
\* with that entry address to the ready queue and has returned its id.
C29_SpawnReachable ==
    sys_last.id = SpawnTaskId =>
        LET n == Len(sys_last.queue_before)
        IN  /\ Len(task_queue) > n
            /\ SubSeq(task_queue, 1, n) = sys_last.queue_before
            /\ task_queue[n + 1].context.r15 = sys_last.arg1
            /\ sys_last.ret = task_queue[n + 1].id

\* C30: every completed schedule_next call has selected a task (the dequeue
\* found one, the idle branch was not taken), so once a tick has completed
\* the current-task slot is occupied.
C30_CurrentAlwaysOccupied ==
    /\ \A i \in 1 .. Len(trace) : trace[i].sel # NoHandle
    /\ ticks >= 1 => current_task # <<>>

\* Ticks arrived with an empty ready queue, the first with no current task.
C30_Witness ==
    /\ ticks >= 2
    /\ trace[1].cur_before = NoHandle
    /\ \A i \in 1 .. Len(trace) : trace[i].q_before = <<>>
    /\ current_task # <<>>

\* ------------------------------------------------------------------------
\* The allocator cursor
\* ------------------------------------------------------------------------

\* C31: the cursor never decreases across an allocate_frame call, and
\* consecutive successful allocations return frames exactly one frame size
\* apart, in increasing order.
C31_CursorMovesForward ==
    /\ mem_last.op = "allocate_frame" => next_free_frame >= mem_last.cursor
    /\ \A i \in 1 .. Len(allocated) - 1 :
          allocated[i + 1] = allocated[i] + FrameSize

C31_Witness ==
    /\ Len(allocated) >= 3
    /\ region_count = 2
    /\ available_regions[1].len = FrameSize
    /\ mem_last.op = "allocate_frame"
    /\ mem_last.result # <<>>

\* C32: as long as no frame has been allocated, the cursor is the base of
\* the first region added (also when that base is 0); later
\* add_available_region calls do not move it.
C32_CursorInitialisedOnce ==
    (region_count >= 1 /\ allocated = <<>>) =>
        next_free_frame = available_regions[1].start

\* ------------------------------------------------------------------------
\* Frames and mappings under demand paging
\* ------------------------------------------------------------------------

\* No page of a tree has two translations.
OneFramePerPage(pt) ==
    \A m1, m2 \in pt :
        (m1.root = m2.root /\ m1.page = m2.page) => m1 = m2

\* Every frame handed out is the target of exactly one translation.
EveryFrameLive(pt, frames) ==
    \A i \in 1 .. Len(frames) :
        Cardinality({m \in pt : m.frame = frames[i]}) = 1

\* C33: a successful map_vma_page whose install succeeded too keeps the
\* one-frame-per-page, one-mapping-per-frame relation: when it held before
\* the call (repeated faults on one address included), every page still has
\* exactly one frame and every frame handed out is still the target of
\* exactly one live mapping.
C33_FramesAndPagesOneToOne ==
    ( /\ mem_last.op = "map_vma_page"
      /\ mem_last.result = "Ok"
      /\ mem_last.install = "Ok"
      /\ OneFramePerPage(mem_last.before.page_table)
      /\ EveryFrameLive(mem_last.before.page_table,
                        mem_last.before.allocated) )
    => ( /\ OneFramePerPage(page_table)
         /\ EveryFrameLive(page_table, allocated) )

\* ------------------------------------------------------------------------
\* Demand paging across tasks
\* ------------------------------------------------------------------------

\* The area every task faults in: Data, [0x2000, 0x3000).
SharedArea == VirtualMemoryArea(2 * FrameSize, FrameSize, [flags |-> 3, area_type |-> "Data"])

\* Tasks differ in their page-table root only.
AddTaskOfRoot ==
    /\ AddTask
    /\ \A i \in DOMAIN task_queue' : task_queue'[i].id = 0

AddSharedArea ==
    /\ AddArea
    /\ areas' = {SharedArea}

\* The tick always interrupts the same register file.
TickOfContext ==
    /\ Tick
    /\ trace'[Len(trace')].entry.rbx = 1

\* A resolved fault: the map_vma_page call that answers Ok.
ResolveFault ==
    /\ MapVmaPage
    /\ mem_last'.result = "Ok"

\* Ticks interleaved with resolved faults of whichever task is running,
\* each installed into the tree CR3 names.
NextShare == AddTaskOfRoot \/ TickOfContext \/ AddSharedArea \/ ResolveFault

SpecShare == InitVma /\ [][NextShare]_vars

MaxEoi == 3

KeyboardVector == PIC_1_OFFSET + 1

\* Vectors handed to notify_end_of_interrupt (a u8): the two handled lines,
\* the last master line, the first and last slave lines, and two vectors
\* past the slave's eight lines.
Vectors == {TimerVector, KeyboardVector, PIC_1_OFFSET + 7, PIC_2_OFFSET,
            PIC_2_OFFSET + 7, PIC_2_OFFSET + 8, 255}

NotifyEoi ==
    /\ Len(eoi_log) < MaxEoi
    /\ \E interrupt_id \in Vectors :
          eoi_log' = eoi_log \o notify_end_of_interrupt(interrupt_id)
    /\ UNCHANGED <<kern, ipc, pmm, areas, page_table, allocated, mem_last,
                   timer_irqs, ext>>

NextPic == NotifyEoi

SpecPic == Init /\ [][NextPic]_vars

FromSlave(v) == v >= PIC_2_OFFSET /\ v <= PIC_2_OFFSET + 7

\* C35: every acknowledgement reaches the master; the slave is
\* acknowledged, just before the master, exactly when the vector is one of
\* the slave's eight lines; timer and keyboard vectors reach the master
\* only.
C35_EoiRouting ==
    \A i \in DOMAIN eoi_log :
        /\ eoi_log[i].pic = "slave" =>
              /\ FromSlave(eoi_log[i].vector)
              /\ i < Len(eoi_log)
              /\ eoi_log[i + 1] = [pic |-> "master",
                                   vector |-> eoi_log[i].vector]
        /\ (eoi_log[i].pic = "master" /\ FromSlave(eoi_log[i].vector)) =>
              /\ i > 1
              /\ eoi_log[i - 1] = [pic |-> "slave",
                                   vector |-> eoi_log[i].vector]
        /\ eoi_log[i].vector \in {TimerVector, KeyboardVector} =>
              eoi_log[i].pic = "master"

\* ------------------------------------------------------------------------
\* IPC: the endpoint table and its inboxes
\* ------------------------------------------------------------------------

\* The length of SimpleEndpointMap::map.
EndpointCapacity == 16

\* Endpoint(u64) values offered to the IPC operations.
EndpointIds == 1 .. (EndpointCapacity + 1)

\* IpcKind::Request and IpcKind::Notification.
IpcKindRequest == 1

IpcKindNotification == 3

Message(sender, kind, payload) ==
    [sender |-> sender, kind |-> kind, payload |-> payload]

\* Endpoints addressed by send and receive: the one IpcManager::init
\* registers, a second one, and one past the table's capacity.
ActiveEndpoints == {1, 2, EndpointCapacity + 1}

Messages == {Message(1, IpcKindRequest, 0), Message(2, IpcKindNotification, 7)}

\* One used slot of the table: (Endpoint, Option<Message>).
Entry(endpoint, inbox) == [endpoint |-> endpoint, inbox |-> inbox]

\* SimpleEndpointMap::new(): count = 0. The table is map[0 .. count].
SimpleEndpointMap_new == <<>>

IsRegistered(table, endpoint) ==
    \E i \in DOMAIN table : table[i].endpoint = endpoint

\* iter().find / iter_mut().find: the first slot that holds the endpoint.
Find(table, endpoint) ==
    CHOOSE i \in DOMAIN table :
        /\ table[i].endpoint = endpoint
        /\ \A j \in 1 .. (i - 1) : table[j].endpoint # endpoint

\* register without the test of lines 33-35.
register_nodup(table, endpoint) ==
    IF Len(table) >= EndpointCapacity
    THEN [map |-> table, result |-> "InternalError"]
    ELSE [map |-> Append(table, Entry(endpoint, <<>>)), result |-> "Ok"]

\* SimpleEndpointMap::register
register(table, endpoint) ==
    IF Len(table) >= EndpointCapacity
    THEN [map |-> table, result |-> "InternalError"]
    ELSE IF IsRegistered(table, endpoint)
    THEN [map |-> table, result |-> "InternalError"]
    ELSE [map |-> Append(table, Entry(endpoint, <<>>)), result |-> "Ok"]

\* send that stores the message whatever the inbox holds.
send_overwrite(table, dest, msg) ==
    IF IsRegistered(table, dest)
    THEN [map |-> [table EXCEPT ![Find(table, dest)].inbox = <<msg>>],
          result |-> "Ok"]
    ELSE [map |-> table, result |-> "EndpointNotFound"]

\* SimpleEndpointMap::send
send(table, dest, msg) ==
    IF IsRegistered(table, dest)
    THEN LET i == Find(table, dest)
         IN  IF table[i].inbox = <<>>
             THEN [map |-> [table EXCEPT ![i].inbox = <<msg>>],
                   result |-> "Ok"]
             ELSE [map |-> table, result |-> "InvalidEndpointState"]
    ELSE [map |-> table, result |-> "EndpointNotFound"]

\* receive that reads the inbox without take().
receive_peek(table, receiver) ==
    IF IsRegistered(table, receiver)
    THEN LET i == Find(table, receiver)
         IN  IF table[i].inbox # <<>>
             THEN [map |-> table, result |-> "Ok", value |-> table[i].inbox]
             ELSE [map |-> table, result |-> "Timeout", value |-> <<>>]
    ELSE [map |-> table, result |-> "EndpointNotFound", value |-> <<>>]

\* SimpleEndpointMap::receive
receive(table, receiver) ==
    IF IsRegistered(table, receiver)
    THEN LET i == Find(table, receiver)
         IN  IF table[i].inbox # <<>>
             THEN [map |-> [table EXCEPT ![i].inbox = <<>>],
                   result |-> "Ok", value |-> table[i].inbox]
             ELSE [map |-> table, result |-> "Timeout", value |-> <<>>]
    ELSE [map |-> table, result |-> "EndpointNotFound", value |-> <<>>]

\* IpcManager::register_endpoint
register_endpoint(g, endpoint) ==
    IF g # <<>>
    THEN LET r == register(g[1], endpoint)
         IN  [map |-> <<r.map>>, result |-> r.result]
    ELSE [map |-> g, result |-> "InternalError"]

\* IpcManager::send_message
send_message(g, dest, msg) ==
    IF g # <<>>
    THEN LET r == send(g[1], dest, msg)
         IN  [map |-> <<r.map>>, result |-> r.result]
    ELSE [map |-> g, result |-> "InternalError"]

\* IpcManager::receive_message
receive_message(g, receiver) ==
    IF g # <<>>
    THEN LET r == receive(g[1], receiver)
         IN  [map |-> <<r.map>>, result |-> r.result, value |-> r.value]
    ELSE [map |-> g, result |-> "InternalError", value |-> <<>>]

\* Once::call_once: the closure runs only while the cell is empty.
call_once(g) == IF g = <<>> THEN <<SimpleEndpointMap_new>> ELSE g

\* An IPC call and what it returned; ret and out are the C-side view of it.
IpcCall(op, endpoint, msg, result, value, ret, out) ==
    [op |-> op, endpoint |-> endpoint, msg |-> msg, result |-> result,
     value |-> value, ret |-> ret, out |-> out, before |-> ipc_map]

\* IpcManager::init: the table is created once, then Endpoint(1) is
\* registered and the outcome of that is dropped.
IpcManagerInit ==
    /\ LET r == register_endpoint(call_once(ipc_map), 1)
       IN  /\ ipc_map' = r.map
           /\ ipc_last' = IpcCall("init", 1, <<>>, r.result, <<>>, 0, <<>>)
    /\ UNCHANGED <<kern, mem_rest>>

RegisterEndpoint ==
    /\ \E endpoint \in EndpointIds :
          LET r == register_endpoint(ipc_map, endpoint)
          IN  /\ ipc_map' = r.map
              /\ ipc_last' = IpcCall("register", endpoint, <<>>, r.result,
                                     <<>>, 0, <<>>)
    /\ UNCHANGED <<kern, mem_rest>>

SendMessage ==
    /\ \E dest \in ActiveEndpoints, msg \in Messages :
          LET r == send_message(ipc_map, dest, msg)
          IN  /\ ipc_map' = r.map
              /\ ipc_last' = IpcCall("send", dest, <<msg>>, r.result, <<>>,
                                     0, <<>>)
    /\ UNCHANGED <<kern, mem_rest>>

ReceiveMessage ==
    /\ \E receiver \in ActiveEndpoints :
          LET r == receive_message(ipc_map, receiver)
          IN  /\ ipc_map' = r.map
              /\ ipc_last' = IpcCall("receive", receiver, <<>>, r.result,
                                     r.value, 0, <<>>)
    /\ UNCHANGED <<kern, mem_rest>>

\* ------------------------------------------------------------------------
\* The C interface
\* ------------------------------------------------------------------------

\* `e as u32` of an IpcError: the position of the variant in the enum.
IpcErrorCode(e) ==
    CASE e = "EndpointNotFound" -> 0
      [] e = "InvalidEndpointState" -> 1
      [] e = "InvalidMessage" -> 2
      [] e = "Timeout" -> 3
      [] e = "InternalError" -> 4

\* `e as u32` of a TouchscreenError.
TouchscreenErrorCode(e) ==
    CASE e = "DeviceNotFound" -> 0
      [] e = "CommunicationInitFailed" -> 1
      [] e = "HardwareFault" -> 2
      [] e = "ReadTimeout" -> 3

\* lightos_ipc_send: msg_ptr is <<>> for a null pointer, <<msg>> otherwise.
lightos_ipc_send(g, dest_id, msg_ptr) ==
    IF msg_ptr = <<>>
    THEN [map |-> g, result |-> "InvalidMessage",
          ret |-> IpcErrorCode("InvalidMessage")]
    ELSE LET r == send_message(g, dest_id, msg_ptr[1])
         IN  [map |-> r.map, result |-> r.result,
              ret |-> IF r.result = "Ok" THEN 0 ELSE IpcErrorCode(r.result)]

\* lightos_ipc_receive: out is what is written through out_msg_ptr.
lightos_ipc_receive(g, receiver_id, out_is_null) ==
    IF out_is_null
    THEN [map |-> g, result |-> "InvalidMessage", out |-> <<>>,
          ret |-> IpcErrorCode("InvalidMessage")]
    ELSE LET r == receive_message(g, receiver_id)
         IN  IF r.result = "Ok"
             THEN [map |-> r.map, result |-> r.result, out |-> r.value,
                   ret |-> 0]
             ELSE [map |-> r.map, result |-> r.result, out |-> <<>>,
                   ret |-> IpcErrorCode(r.result)]

EXPECTED_DEVICE_ID == 66

\* TouchscreenDriver::new: NonNull::new(mmio_base)
TouchscreenDriver_new(mmio_base) ==
    IF mmio_base = 0 THEN "DeviceNotFound" ELSE "Ok"

\* TouchscreenDriver::init, given what the device answers on the reads of
\* REG_DEVICE_ID and REG_CONTROL.
TouchscreenDriver_init(device_id, control_status) ==
    IF device_id # EXPECTED_DEVICE_ID THEN "DeviceNotFound"
    ELSE IF control_status % 2 # 1 THEN "CommunicationInitFailed"
    ELSE "Ok"

\* lightos_driver_touch_init
lightos_driver_touch_init(mmio_addr, device_id, control_status) ==
    LET made == TouchscreenDriver_new(mmio_addr)
        r == IF made # "Ok" THEN made
             ELSE TouchscreenDriver_init(device_id, control_status)
    IN  [result |-> r,
         ret |-> IF r = "Ok" THEN 0 ELSE TouchscreenErrorCode(r)]

\* MMIO base addresses handed to the driver: null and 0xFEB00000 / 4096.
MmioAddrs == {0, 1043200}

DeviceIds == {EXPECTED_DEVICE_ID, 255}

ControlStatuses == {0, 1}

FfiSend ==
    /\ \E dest_id \in ActiveEndpoints, msg_ptr \in {<<>>} \cup {<<m>> : m \in Messages} :
          LET r == lightos_ipc_send(ipc_map, dest_id, msg_ptr)
          IN  /\ ipc_map' = r.map
              /\ ipc_last' = IpcCall("lightos_ipc_send", dest_id, msg_ptr,
                                     r.result, <<>>, r.ret, <<>>)
    /\ UNCHANGED <<kern, mem_rest>>

FfiReceive ==
    /\ \E receiver_id \in ActiveEndpoints, out_is_null \in BOOLEAN :
          LET r == lightos_ipc_receive(ipc_map, receiver_id, out_is_null)
          IN  /\ ipc_map' = r.map
              /\ ipc_last' = IpcCall("lightos_ipc_receive", receiver_id,
                                     <<>>, r.result, r.out, r.ret, r.out)
    /\ UNCHANGED <<kern, mem_rest>>

FfiTouchInit ==
    /\ \E mmio_addr \in MmioAddrs, device_id \in DeviceIds,
          control_status \in ControlStatuses :
          LET r == lightos_driver_touch_init(mmio_addr, device_id,
                                             control_status)
          IN  ipc_last' = IpcCall("lightos_driver_touch_init", mmio_addr,
                                  <<>>, r.result, <<>>, r.ret, <<>>)
    /\ UNCHANGED <<kern, mem_rest, ipc_map>>

\* ------------------------------------------------------------------------
\* IPC specification
\* ------------------------------------------------------------------------
TableOf(g) == IF g = <<>> THEN <<>> ELSE g[1]

\* Endpoint ids are only compared for equality: new ids are introduced in
\* increasing order, an id already in the table may come again.
RegisterInOrder ==
    /\ RegisterEndpoint
    /\ ipc_last'.endpoint <= Len(TableOf(ipc_map)) + 1

NextIpc ==
    \/ IpcManagerInit
    \/ RegisterInOrder
    \/ SendMessage
    \/ ReceiveMessage
    \/ FfiSend
    \/ FfiReceive
    \/ FfiTouchInit

SpecIpc == Init /\ [][NextIpc]_vars

InboxOf(g, endpoint) == TableOf(g)[Find(TableOf(g), endpoint)].inbox

\* No call is left waiting: send and receive can be issued, and answer, in
\* every state.
NeverBlocks == ENABLED SendMessage /\ ENABLED ReceiveMessage

OneMessagePerInbox ==
    \A i \in DOMAIN TableOf(ipc_map) : Len(TableOf(ipc_map)[i].inbox) <= 1

MessageOps == {"send", "receive", "lightos_ipc_send", "lightos_ipc_receive"}

\* C37: a successful send(d, m) finds d's inbox empty and leaves exactly m
\* in it; a receive(d) on an inbox holding m returns exactly m and empties
\* the inbox; a receive(d) on an empty inbox returns Timeout; a send or a
\* receive on one endpoint changes the slot of no other endpoint. So the
\* receive that follows a successful send(d, m) returns m, and a further
\* one without a send in between returns Timeout.
C37_ExactlyOnceDelivery ==
    LET b == TableOf(ipc_last.before)
        t == TableOf(ipc_map)
        d == ipc_last.endpoint
    IN  /\ (ipc_last.op = "send" /\ ipc_last.result = "Ok") =>
              /\ InboxOf(ipc_last.before, d) = <<>>
              /\ InboxOf(ipc_map, d) = ipc_last.msg
        /\ (ipc_last.op = "receive" /\ IsRegistered(b, d)) =>
              /\ InboxOf(ipc_map, d) = <<>>
              /\ IF InboxOf(ipc_last.before, d) # <<>>
                 THEN /\ ipc_last.result = "Ok"
                      /\ ipc_last.value = InboxOf(ipc_last.before, d)
                 ELSE /\ ipc_last.result = "Timeout"
                      /\ ipc_last.value = <<>>
        /\ ipc_last.op \in MessageOps =>
              /\ Len(t) = Len(b)
              /\ \A i \in DOMAIN b : b[i].endpoint # d => t[i] = b[i]
              /\ \A i \in DOMAIN b : t[i].endpoint = b[i].endpoint

C37_Witness ==
    /\ ipc_last.op = "receive"
    /\ ipc_last.endpoint = 1
    /\ ipc_last.result = "Ok"
    /\ ipc_last.value = <<Message(2, IpcKindNotification, 7)>>
    /\ InboxOf(ipc_map, 1) = <<>>
    /\ IsRegistered(TableOf(ipc_map), 2)
    /\ InboxOf(ipc_map, 2) = <<Message(1, IpcKindRequest, 0)>>

\* C38: the table never holds more than EndpointCapacity endpoints nor one
\* endpoint twice; a register on a full table or of an endpoint already in
\* it fails and leaves the table as it was; register, send and receive
\* issued before IpcManager::init fail with InternalError.
C38_TableBounded ==
    LET b == TableOf(ipc_last.before)
        t == TableOf(ipc_map)
    IN  /\ Len(t) <= EndpointCapacity
        /\ \A i, j \in DOMAIN t : t[i].endpoint = t[j].endpoint => i = j
        /\ (ipc_last.op = "register"
              /\ (Len(b) >= EndpointCapacity
                    \/ IsRegistered(b, ipc_last.endpoint))) =>
              /\ ipc_last.result = "InternalError"
              /\ ipc_map = ipc_last.before
        /\ (ipc_last.op \in {"register", "send", "receive"}
              /\ ipc_last.before = <<>>) =>
              /\ ipc_last.result = "InternalError"
              /\ ipc_map = <<>>

C38_Witness ==
    /\ ipc_last.op = "register"
    /\ ipc_last.endpoint = EndpointCapacity + 1
    /\ ipc_last.result = "InternalError"
    /\ Len(TableOf(ipc_map)) = EndpointCapacity
    /\ ~IsRegistered(TableOf(ipc_map), ipc_last.endpoint)

FfiOps == {"lightos_ipc_send", "lightos_ipc_receive",
           "lightos_driver_touch_init"}

\* C39: each wrapper returns 0 exactly when the operation it wraps
\* succeeded, so every error kind comes back as a code other than 0, and
\* lightos_ipc_receive writes the output message only when it returns 0.
C39_WrappersUnambiguous ==
    ipc_last.op \in FfiOps =>
        /\ ipc_last.ret = 0 <=> ipc_last.result = "Ok"
        /\ ipc_last.out # <<>> => ipc_last.ret = 0
====
